---- MODULE Spec2Model ----
(***************************************************************************)
(* Model of cloudwatch/main.py: the stream-discovery loop, the dispatch    *)
(* loop, the per-stream writer threads, the checkpoint persister and the   *)
(* status monitor, synchronised through the two module-level dictionaries  *)
(* LOG_STREAM_MAP and LOG_STREAM_CHECKPOINT.                               *)
(***************************************************************************)
EXTENDS Integers, Sequences, FiniteSets, TLC

VARIABLES
    LOG_STREAMS_FILTER,     \* the allow-list read by _wanted_log_stream
    LOG_STREAM_MAP,         \* the dict, as its entries in insertion order
    LOG_STREAM_CHECKPOINT,  \* the dict stream name -> next token, in key order
    discoverer,             \* the discover_logs thread
    dispatchers,            \* the sync_new_logs threads
    threads,                \* the write_log threads, in start order
    files,                  \* the per-stream log files, path -> lines
    persister,              \* the persist_state thread and the state file;
                            \* read is the store as its last cycle read it,
                            \* repeat whether the cycle before read the same
    monitor,                \* the log_status thread
    history,                \* what has happened so far (observation only)
    gb,                     \* the GlobalManager: who holds its lock, and the
                            \* calls of its methods that are under way
    consumer                \* a MixpanelConsumer and the call of process it
                            \* is in

vars == <<LOG_STREAMS_FILTER, LOG_STREAM_MAP, LOG_STREAM_CHECKPOINT, discoverer,
          dispatchers, threads, files, persister, monitor, history, gb,
          consumer>>

---------------------------------------------------------------------------
(* Bounds of the model *)

\* discovery ticks the discover_logs loop is followed for
MaxTicks == 2
\* write_log threads the dispatch loops may start in all
MaxThreads == 2
\* persistence cycles the persist_state loop is followed for
MaxPersist == 2
\* status ticks the log_status loop is followed for
MaxStatus == 1
\* dispatch ticks that run side by side in SpecTicks
NumTicks == 2
\* threads that call the methods of gb in SpecLocks
NumCallers == 3

---------------------------------------------------------------------------
(* Python values *)

\* None; an optional value x that is present is written Some(x)
None == <<>>
Some(x) == <<x>>

\* a tally: one more of x in the counts c
Count(c, x) ==
    [y \in DOMAIN c \cup {x} |->
        IF y = x THEN (IF x \in DOMAIN c THEN c[x] + 1 ELSE 1) ELSE c[y]]

\* list.append and the elements of a list
Append1(s, x) == s \o <<x>>
Range(s) == {s[i] : i \in 1..Len(s)}

---------------------------------------------------------------------------
(* Configuration and the remote log source *)

LOG_GROUP_NAME == "g"
STREAM_LOOKBACK_COUNT == 2

\* the streams of the log group at the source
Streams == {"s1", "s2"}

\* the pages get_log_events yields for a stream, (records, next token) pairs;
\* every call yields them from the head of the stream
GetLogEvents(s) ==
    IF s = "s1"
    THEN << [logs |-> <<"a1", "a2">>, next_token |-> "t1"],
            [logs |-> <<"a3">>, next_token |-> "t2"] >>
    ELSE << [logs |-> <<"b1">>, next_token |-> "u1"] >>

\* the answers ListStreams can give: at most lookback streams, none twice
Listings ==
    {l \in UNION {[1..n -> Streams] : n \in 0..STREAM_LOOKBACK_COUNT} :
        \A i, j \in 1..Len(l) : i # j => l[i] # l[j]}

\* the values the allow-list can be configured to: none, or a set of names
\* (config.py sets no LOG_STREAMS_FILTER; these are the values of the optional
\* allow-list of the configuration)
AllFilterValues == {None} \cup {Some(S) : S \in SUBSET Streams}

---------------------------------------------------------------------------
(* GlobalManager: the two dictionaries *)

\* dict key lookup on LOG_STREAM_MAP
MapKeys(m) == {m[i].key : i \in 1..Len(m)}
MapIndex(m, k) == CHOOSE i \in 1..Len(m) : m[i].key = k
MapGet(m, k) == IF k \in MapKeys(m) THEN m[MapIndex(m, k)].value ELSE None

\* a store that adds an entry on every call, also for a key it already holds
set_log_stream_map_Appending(m, key, value) ==
    Append1(m, [key |-> key, value |-> value])

\* a store that inserts a missing key and leaves the value of a present one
set_log_stream_map_InsertOnly(m, key, value) ==
    IF key \in MapKeys(m) THEN m
    ELSE Append1(m, [key |-> key, value |-> value])

\* LOG_STREAM_MAP[key] = value
set_log_stream_map(m, key, value) ==
    IF key \in MapKeys(m)
    THEN [m EXCEPT ![MapIndex(m, key)].value = value]
    ELSE Append1(m, [key |-> key, value |-> value])

\* LOG_STREAM_CHECKPOINT[key] = value
set_checkpoint(c, key, value) ==
    IF key \in MapKeys(c)
    THEN [c EXCEPT ![MapIndex(c, key)].value = value]
    ELSE Append1(c, [key |-> key, value |-> value])

\* the methods of GlobalManager
Methods ==
    {"get_log_stream_map", "set_log_stream_map", "get_checkpoint",
     "set_checkpoint"}

\* line 34: one Lock, free (0), and no call under way
IdleManager ==
    [lock |-> 0,
     calls |-> [c \in 1..NumCallers |-> [pc |-> "out", method |-> "none"]]]

\* thread c calls a method of gb and comes to self.lock.acquire()
GbCall(c) ==
    /\ gb.calls[c].pc = "out"
    /\ \E m \in Methods :
        gb' = [gb EXCEPT !.calls[c] = [pc |-> "acquire", method |-> m]]
    /\ UNCHANGED <<LOG_STREAMS_FILTER, LOG_STREAM_MAP, LOG_STREAM_CHECKPOINT,
                   discoverer, dispatchers, threads, files, persister, monitor,
                   history, consumer>>

\* self.lock.acquire(): waits until the lock is free, then takes it
GbAcquire(c) ==
    /\ gb.calls[c].pc = "acquire"
    /\ gb.lock = 0
    /\ gb' = [gb EXCEPT !.lock = c, !.calls[c].pc = "try"]
    /\ UNCHANGED <<LOG_STREAMS_FILTER, LOG_STREAM_MAP, LOG_STREAM_CHECKPOINT,
                   discoverer, dispatchers, threads, files, persister, monitor,
                   history, consumer>>

\* the try block: the dictionary is returned, or the item is stored
GbBody(c) ==
    /\ gb.calls[c].pc = "try"
    /\ gb' = [gb EXCEPT !.calls[c].pc = "finally"]
    /\ LET m == gb.calls[c].method
       IN /\ \/ /\ m = "set_log_stream_map"
                /\ \E s \in Streams :
                    LOG_STREAM_MAP' = set_log_stream_map(
                        LOG_STREAM_MAP, <<LOG_GROUP_NAME, s>>, None)
             \/ /\ m # "set_log_stream_map"
                /\ UNCHANGED LOG_STREAM_MAP
          /\ \/ /\ m = "set_checkpoint"
                /\ \E s \in Streams :
                    LOG_STREAM_CHECKPOINT' = set_checkpoint(
                        LOG_STREAM_CHECKPOINT, s, GetLogEvents(s)[1].next_token)
             \/ /\ m # "set_checkpoint"
                /\ UNCHANGED LOG_STREAM_CHECKPOINT
    /\ UNCHANGED <<LOG_STREAMS_FILTER, discoverer, dispatchers, threads, files,
                   persister, monitor, history, consumer>>

\* the try block raises (the item assignment of a set method can: an
\* unhashable key, no memory); control goes to the finally block all the same
GbBodyRaises(c) ==
    /\ gb.calls[c].pc = "try"
    /\ gb.calls[c].method \in {"set_log_stream_map", "set_checkpoint"}
    /\ gb' = [gb EXCEPT !.calls[c].pc = "finally raised"]
    /\ UNCHANGED <<LOG_STREAMS_FILTER, LOG_STREAM_MAP, LOG_STREAM_CHECKPOINT,
                   discoverer, dispatchers, threads, files, persister, monitor,
                   history, consumer>>

\* a method that releases the lock on the way out of a try block that ended
\* well, and on no other way out
GbRelease_NoFinally(c) ==
    /\ gb.calls[c].pc \in {"finally", "finally raised"}
    /\ gb' = IF gb.calls[c].pc = "finally"
             THEN [gb EXCEPT !.lock = 0, !.calls[c].pc = "out"]
             ELSE [gb EXCEPT !.calls[c].pc = "raised"]
    /\ UNCHANGED <<LOG_STREAMS_FILTER, LOG_STREAM_MAP, LOG_STREAM_CHECKPOINT,
                   discoverer, dispatchers, threads, files, persister, monitor,
                   history, consumer>>

\* finally: self.lock.release(); the method returns, or the exception of the
\* try block goes on to the caller, whose thread it ends
GbRelease(c) ==
    /\ gb.calls[c].pc \in {"finally", "finally raised"}
    /\ gb' = [gb EXCEPT !.lock = 0,
                        !.calls[c].pc = IF gb.calls[c].pc = "finally"
                                        THEN "out" ELSE "raised"]
    /\ UNCHANGED <<LOG_STREAMS_FILTER, LOG_STREAM_MAP, LOG_STREAM_CHECKPOINT,
                   discoverer, dispatchers, threads, files, persister, monitor,
                   history, consumer>>

---------------------------------------------------------------------------
(* LogStreamHandler: discovery *)

\* a filter that lets every stream pass
_wanted_log_stream_Unfiltered(log_stream_name) == TRUE

_wanted_log_stream(log_stream_name) ==
    \/ LOG_STREAMS_FILTER = None
    \/ log_stream_name \in LOG_STREAMS_FILTER[1]

\* the test of line 139: a lookup of the one-element key (LOG_GROUP_NAME,)
AlreadyProcessed(m) == MapGet(m, <<LOG_GROUP_NAME>>) # None

\* get_log_streams answers: the loop of _discover_log_streams begins
DiscoverList ==
    /\ discoverer.pc = "sleep"
    /\ discoverer.ticks < MaxTicks
    /\ \E l \in Listings :
        /\ discoverer' = [pc |-> "loop", log_streams |-> l,
                          ticks |-> discoverer.ticks + 1]
        /\ history' = [history EXCEPT !.listed = @ \cup Range(l)]
    /\ UNCHANGED <<LOG_STREAMS_FILTER, LOG_STREAM_MAP, LOG_STREAM_CHECKPOINT,
                   dispatchers, threads, files, persister, monitor, gb,
                   consumer>>

\* get_log_streams raises: nothing in discover_logs catches it
DiscoverListFails ==
    /\ discoverer.pc = "sleep"
    /\ discoverer.ticks < MaxTicks
    /\ discoverer' = [discoverer EXCEPT !.pc = "dead", !.ticks = @ + 1]
    /\ UNCHANGED <<LOG_STREAMS_FILTER, LOG_STREAM_MAP, LOG_STREAM_CHECKPOINT,
                   dispatchers, threads, files, persister, monitor, history,
                   gb, consumer>>

\* one iteration of the for loop of _discover_log_streams
DiscoverStep ==
    /\ discoverer.pc = "loop"
    /\ discoverer.log_streams # <<>>
    /\ LET lsn == Head(discoverer.log_streams)
           key == <<LOG_GROUP_NAME, lsn>>
           reg == ~AlreadyProcessed(LOG_STREAM_MAP) /\ _wanted_log_stream(lsn)
       IN /\ LOG_STREAM_MAP' =
                IF reg THEN set_log_stream_map(LOG_STREAM_MAP, key, None)
                       ELSE LOG_STREAM_MAP
          /\ history' =
                IF reg THEN [history EXCEPT !.registered = Count(@, key)]
                       ELSE history
    /\ discoverer' = [discoverer EXCEPT !.log_streams = Tail(@)]
    /\ UNCHANGED <<LOG_STREAMS_FILTER, LOG_STREAM_CHECKPOINT, dispatchers,
                   threads, files, persister, monitor, gb, consumer>>

\* the list is exhausted: log the map, then time.sleep(TIME_DAEMON_SLEEP)
DiscoverSleep ==
    /\ discoverer.pc = "loop"
    /\ discoverer.log_streams = <<>>
    /\ discoverer' = [discoverer EXCEPT !.pc = "sleep"]
    /\ UNCHANGED <<LOG_STREAMS_FILTER, LOG_STREAM_MAP, LOG_STREAM_CHECKPOINT,
                   dispatchers, threads, files, persister, monitor, history,
                   gb, consumer>>

---------------------------------------------------------------------------
(* LogStreamHandler: dispatch *)

\* slugify: lower-case, runs of other characters become one "-"
slugify(name) ==
    CASE name = "S1" -> "s1"
      [] name = "s 1" -> "s-1"
      [] name = "modified_time" -> "modified-time"
      [] OTHER -> name

\* the path AWS_LOGS_DIRECTORY/<slug(group)>/<slug(stream)>.log
_get_file_name(log_group_name, log_stream_name) ==
    <<slugify(log_group_name), slugify(log_stream_name)>>

\* a dictionary iterator (items() of Python 3 is a view of the dictionary, not
\* a copy): the size when it was made and the entries passed
NewIterator(m) == [used |-> Len(m), pos |-> 0]
\* next() raises RuntimeError when the dictionary has changed size
IterRaises(it, m) == it.used # Len(m)
IterExhausted(it, m) == it.pos >= Len(m)

IdleDispatcher(forever) ==
    [pc |-> "idle", it |-> NewIterator(<<>>), new_streams |-> <<>>,
     log_getter |-> 0, forever |-> forever]

\* _get_new_log_streams: .items() of the dictionary get_log_stream_map returns
SyncScanBegin(d) ==
    /\ dispatchers[d].pc = "idle"
    /\ dispatchers' = [dispatchers EXCEPT ![d].pc = "scan",
                          ![d].it = NewIterator(LOG_STREAM_MAP),
                          ![d].new_streams = <<>>]
    /\ UNCHANGED <<LOG_STREAMS_FILTER, LOG_STREAM_MAP, LOG_STREAM_CHECKPOINT,
                   discoverer, threads, files, persister, monitor, history,
                   gb, consumer>>

\* the scan has seen every entry: sleep when nothing is new, else start threads;
\* a dispatcher called for one tick returns when the tick is over
AfterTick(disp) ==
    [IdleDispatcher(disp.forever) EXCEPT
        !.pc = IF disp.forever THEN "idle" ELSE "returned"]

\* one iteration of the for loop of _get_new_log_streams
SyncScanNext(d) ==
    /\ dispatchers[d].pc = "scan"
    /\ LET disp == dispatchers[d]
           it == disp.it
       IN dispatchers' = [dispatchers EXCEPT ![d] =
            IF IterRaises(it, LOG_STREAM_MAP)
            THEN [disp EXCEPT !.pc = "dead"]
            ELSE IF IterExhausted(it, LOG_STREAM_MAP)
            THEN IF disp.new_streams = <<>>
                 THEN AfterTick(disp)
                 ELSE [disp EXCEPT !.pc = "spawn"]
            ELSE LET e == LOG_STREAM_MAP[it.pos + 1]
                 IN [disp EXCEPT !.it.pos = @ + 1,
                        !.new_streams = IF e.value = None
                                        THEN Append1(@, e.key) ELSE @]]
    /\ UNCHANGED <<LOG_STREAMS_FILTER, LOG_STREAM_MAP, LOG_STREAM_CHECKPOINT,
                   discoverer, threads, files, persister, monitor, history,
                   gb, consumer>>

\* a thread about to run write_log(file_name, log_group_name, log_stream_name)
NewThread(key) ==
    [file_name |-> _get_file_name(key[1], key[2]), log_group_name |-> key[1],
     log_stream_name |-> key[2], pc |-> "open", page |-> 0, rec |-> 0]

\* sync_new_logs, lines 183-187: log_getter.start()
SyncSpawn(d) ==
    /\ dispatchers[d].pc = "spawn"
    /\ Len(threads) < MaxThreads
    /\ threads' = Append1(threads, NewThread(Head(dispatchers[d].new_streams)))
    /\ dispatchers' = [dispatchers EXCEPT ![d].pc = "claim",
                                          ![d].log_getter = Len(threads) + 1]
    /\ UNCHANGED <<LOG_STREAMS_FILTER, LOG_STREAM_MAP, LOG_STREAM_CHECKPOINT,
                   discoverer, files, persister, monitor, history, gb,
                   consumer>>

\* sync_new_logs, line 188: set_log_stream_map(key, log_getter)
SyncClaim(d) ==
    /\ dispatchers[d].pc = "claim"
    /\ LET disp == dispatchers[d]
           rest == Tail(disp.new_streams)
       IN /\ LOG_STREAM_MAP' = set_log_stream_map(
                LOG_STREAM_MAP, Head(disp.new_streams), Some(disp.log_getter))
          /\ dispatchers' = [dispatchers EXCEPT ![d] =
                IF rest = <<>>
                THEN AfterTick(disp)
                ELSE [disp EXCEPT !.pc = "spawn", !.new_streams = rest]]
    /\ UNCHANGED <<LOG_STREAMS_FILTER, LOG_STREAM_CHECKPOINT, discoverer,
                   threads, files, persister, monitor, history, gb, consumer>>

---------------------------------------------------------------------------
(* LogStreamHandler.write_log: one thread per started stream *)

\* str(_log) + '\n': a record is written as the line of its text
LineOf(_log) == _log

\* a file opened with 'a+': every write goes to the end of the file
FileAppend(fs, file_name, line) ==
    [fs EXCEPT ![file_name] = Append1(@, line)]

\* line 80, open(file_name, 'w'): the file is created, or emptied when another
\* thread has created it since it was looked for
FileCreate(fs, file_name) ==
    [f \in DOMAIN fs \cup {file_name} |->
        IF f = file_name THEN <<>> ELSE fs[f]]

\* lines 113, 77-79: _create_file_if_does_not_exist looks for the file with
\* open(file_name, 'r'); when it is there it is closed and, line 114, opened
\* for append
TailerOpen(t) ==
    /\ threads[t].pc = "open"
    /\ threads' = [threads EXCEPT ![t].pc =
            IF threads[t].file_name \in DOMAIN files THEN "fetch" ELSE "create"]
    /\ UNCHANGED <<LOG_STREAMS_FILTER, LOG_STREAM_MAP, LOG_STREAM_CHECKPOINT,
                   discoverer, dispatchers, files, persister, monitor, history,
                   gb, consumer>>

\* lines 79-81, 114: the file was not found; it is opened with 'w' and closed,
\* then opened for append
TailerCreate(t) ==
    /\ threads[t].pc = "create"
    /\ files' = FileCreate(files, threads[t].file_name)
    /\ threads' = [threads EXCEPT ![t].pc = "fetch"]
    /\ UNCHANGED <<LOG_STREAMS_FILTER, LOG_STREAM_MAP, LOG_STREAM_CHECKPOINT,
                   discoverer, dispatchers, persister, monitor, history, gb,
                   consumer>>

\* line 115: the generator yields its next page, or ends and the file is closed
TailerFetch(t) ==
    /\ threads[t].pc = "fetch"
    /\ LET th == threads[t]
           pages == GetLogEvents(th.log_stream_name)
       IN threads' = [threads EXCEPT ![t] =
            IF th.page < Len(pages)
            THEN [th EXCEPT !.pc = "write", !.page = @ + 1, !.rec = 0]
            ELSE [th EXCEPT !.pc = "done"]]
    /\ UNCHANGED <<LOG_STREAMS_FILTER, LOG_STREAM_MAP, LOG_STREAM_CHECKPOINT,
                   discoverer, dispatchers, files, persister, monitor, history,
                   gb, consumer>>

\* a failed fetch that takes the loops that started the thread down with it
TailerFetchFails_Propagating(t) ==
    /\ threads[t].pc = "fetch"
    /\ threads' = [threads EXCEPT ![t].pc = "failed"]
    /\ dispatchers' = [d \in DOMAIN dispatchers |->
                        [dispatchers[d] EXCEPT !.pc = "dead"]]
    /\ UNCHANGED <<LOG_STREAMS_FILTER, LOG_STREAM_MAP, LOG_STREAM_CHECKPOINT,
                   discoverer, files, persister, monitor, history, gb,
                   consumer>>

\* lines 80, 114, 119-120: opening the file or writing to it raises; write_log
\* catches nothing and the thread ends
TailerFileFails(t) ==
    /\ threads[t].pc \in {"open", "create", "write"}
    /\ threads' = [threads EXCEPT ![t].pc = "failed"]
    /\ UNCHANGED <<LOG_STREAMS_FILTER, LOG_STREAM_MAP, LOG_STREAM_CHECKPOINT,
                   discoverer, dispatchers, files, persister, monitor, history,
                   gb, consumer>>

\* line 115: the fetch raises; write_log catches nothing and the thread ends
TailerFetchFails(t) ==
    /\ threads[t].pc = "fetch"
    /\ threads' = [threads EXCEPT ![t].pc = "failed"]
    /\ UNCHANGED <<LOG_STREAMS_FILTER, LOG_STREAM_MAP, LOG_STREAM_CHECKPOINT,
                   discoverer, dispatchers, files, persister, monitor, history,
                   gb, consumer>>

\* lines 118-120: one record is written and flushed
TailerWrite(t) ==
    /\ threads[t].pc = "write"
    /\ LET th == threads[t]
           page == GetLogEvents(th.log_stream_name)[th.page]
       IN /\ th.rec < Len(page.logs)
          /\ files' = FileAppend(files, th.file_name, LineOf(page.logs[th.rec + 1]))
          /\ threads' = [threads EXCEPT ![t].rec = @ + 1]
    /\ UNCHANGED <<LOG_STREAMS_FILTER, LOG_STREAM_MAP, LOG_STREAM_CHECKPOINT,
                   discoverer, dispatchers, persister, monitor, history, gb,
                   consumer>>

\* line 122: the page is written; gb.set_checkpoint(log_stream_name, next_token)
TailerCheckpoint(t) ==
    /\ threads[t].pc = "write"
    /\ LET th == threads[t]
           page == GetLogEvents(th.log_stream_name)[th.page]
       IN /\ th.rec = Len(page.logs)
          /\ LOG_STREAM_CHECKPOINT' = set_checkpoint(
                LOG_STREAM_CHECKPOINT, th.log_stream_name, page.next_token)
          /\ history' = [history EXCEPT !.writers =
                [s \in DOMAIN @ \cup {th.log_stream_name} |->
                    IF s = th.log_stream_name
                    THEN (IF s \in DOMAIN @ THEN @[s] ELSE {}) \cup {t}
                    ELSE @[s]]]
    /\ threads' = [threads EXCEPT ![t].pc = "fetch"]
    /\ UNCHANGED <<LOG_STREAMS_FILTER, LOG_STREAM_MAP, discoverer, dispatchers,
                   files, persister, monitor, gb, consumer>>

---------------------------------------------------------------------------
(* LogStreamHandler.persist_state *)

\* time.asctime() in cycle n of the loop: the text of the second it runs in
asctime(n) == ToString(n)

\* state[key] = value on the local dict of persist_state
DictSetItem(state, key, value) ==
    IF key \in MapKeys(state)
    THEN [state EXCEPT ![MapIndex(state, key)].value = value]
    ELSE Append1(state, [key |-> key, value |-> value])

\* an update that adds the items of other behind those state holds
DictUpdate_Appending(state, other) == state \o other

\* dict.update: each item of other, in its order, is set in state; the keys
\* state held keep their places and the rest of its items are kept
RECURSIVE DictUpdate(_, _)
DictUpdate(state, other) ==
    IF other = <<>> THEN state
    ELSE DictUpdate(DictSetItem(state, other[1].key, other[1].value),
                    Tail(other))

\* the members of the JSON object, in the order of the dict
RECURSIVE JsonMembers(_)
JsonMembers(state) ==
    IF state = <<>> THEN <<>>
    ELSE <<state[1].key, ":", state[1].value>>
            \o (IF Len(state) > 1 THEN <<",">> ELSE <<>>)
            \o JsonMembers(Tail(state))

\* json.dumps of the dict: the text of the object, token by token
JsonDumps(state) == <<"{">> \o JsonMembers(state) \o <<"}">>

\* one turn of the loop, lines 200-212: the state dict takes the time and the
\* checkpoints, and the state file is overwritten with its JSON text
PersistCycle ==
    /\ persister.cycles < MaxPersist
    /\ LET now == persister.cycles + 1
           state == DictUpdate(
                DictSetItem(persister.state, "modified_time", asctime(now)),
                LOG_STREAM_CHECKPOINT)
       IN persister' = [state |-> state, file |-> Some(JsonDumps(state)),
                        cycles |-> now, read |-> LOG_STREAM_CHECKPOINT,
                        repeat |-> /\ persister.cycles > 0
                                   /\ persister.read = LOG_STREAM_CHECKPOINT]
    /\ UNCHANGED <<LOG_STREAMS_FILTER, LOG_STREAM_MAP, LOG_STREAM_CHECKPOINT,
                   discoverer, dispatchers, threads, files, monitor, history,
                   gb, consumer>>

---------------------------------------------------------------------------
(* LogProcessMonitor.log_status *)

\* lines 241-244: the line logged for an entry names its group and stream and
\* whether a thread is processing it
StatusLine(_log_group_stream, _processing_thread) ==
    <<_log_group_stream[1], _log_group_stream[2], _processing_thread # None>>

\* line 240: .items() of the dictionary get_log_stream_map returns
StatusBegin ==
    /\ monitor.pc = "sleep"
    /\ monitor.ticks < MaxStatus
    /\ monitor' = [pc |-> "loop", it |-> NewIterator(LOG_STREAM_MAP),
                   emitted |-> <<>>, ticks |-> monitor.ticks + 1]
    /\ UNCHANGED <<LOG_STREAMS_FILTER, LOG_STREAM_MAP, LOG_STREAM_CHECKPOINT,
                   discoverer, dispatchers, threads, files, persister, history,
                   gb, consumer>>

\* one iteration of the for loop: a status line for the entry, or the end of the
\* tick, or the RuntimeError of an iterator whose dictionary has grown
StatusNext ==
    /\ monitor.pc = "loop"
    /\ monitor' =
        IF IterRaises(monitor.it, LOG_STREAM_MAP)
        THEN [monitor EXCEPT !.pc = "dead"]
        ELSE IF IterExhausted(monitor.it, LOG_STREAM_MAP)
        THEN [monitor EXCEPT !.pc = "sleep"]
        ELSE LET e == LOG_STREAM_MAP[monitor.it.pos + 1]
             IN [monitor EXCEPT !.it.pos = @ + 1,
                    !.emitted = Append1(@, StatusLine(e.key, e.value))]
    /\ UNCHANGED <<LOG_STREAMS_FILTER, LOG_STREAM_MAP, LOG_STREAM_CHECKPOINT,
                   discoverer, dispatchers, threads, files, persister, history,
                   gb, consumer>>

---------------------------------------------------------------------------
(* MixpanelConsumer *)

\* what message.get gives for templatized_url and for app_id in a request
\* record: None when the key is absent, else the string
Urls == {None, Some(""), Some("/"), Some("/x")}
AppIds == {None, Some(""), Some("app")}

\* the strings the inner message can be: the text of a request object, of a
\* JSON array, or no JSON at all; mentions tells whether 'templatized_url'
\* occurs in the string, as it does when the object has that key
InnerTexts ==
    {t \in [kind : {"request"}, templatized_url : Urls, app_id : AppIds,
            mentions : BOOLEAN] : t.templatized_url # None => t.mentions}
    \cup [kind : {"array", "text"}, mentions : BOOLEAN]

\* the strings log_line['message'] can be: the text of an object with or
\* without a message member, of a JSON array, or no JSON at all
OuterTexts ==
    [kind : {"envelope"}, message : {None} \cup {Some(t) : t \in InnerTexts}]
    \cup [kind : {"array", "text"}]

\* the log lines: with no message key, or with one
LogLines == {None} \cup {Some(t) : t \in OuterTexts}

\* what a statement can come to besides a value
Raised == [type |-> "raised"]
Returned == [type |-> "returned"]

\* json.loads: raises on a string that is no JSON; an object becomes a dict
\* of the members it has, an array a list
json_loads(text) ==
    CASE text.kind = "text" -> Raised
      [] text.kind = "array" -> [type |-> "list"]
      [] text.kind = "envelope" ->
            [type |-> "dict",
             items |-> IF text.message = None THEN <<>>
                       ELSE [k \in {"message"} |-> text.message[1]]]
      [] text.kind = "request" ->
            [type |-> "dict",
             items |-> [k \in {"request_url"}
                            \cup (IF text.templatized_url = None THEN {}
                                  ELSE {"templatized_url"})
                            \cup (IF text.app_id = None THEN {}
                                  ELSE {"app_id"}) |->
                        CASE k = "request_url" -> "/x?q=1"
                          [] k = "templatized_url" -> text.templatized_url[1]
                          [] k = "app_id" -> text.app_id[1]]]

\* dict.get(key): the value, or None when the key is absent
DictGet(d, key) == IF key \in DOMAIN d.items THEN Some(d.items[key]) ELSE None

\* a filter that reports every request
should_report_Always(url, app_id) == TRUE

\* lines 13-20: not for an empty or absent url, not for "/", not without app_id
should_report(url, app_id) ==
    IF url = None \/ url = Some("") THEN FALSE
    ELSE IF url = Some("/") THEN FALSE
    ELSE IF app_id = None \/ app_id = Some("") THEN FALSE
    ELSE TRUE

\* lines 25-30: the request dict the log line holds, or the return of line 29,
\* or the exception one of the lines raises
ParseLogLine(log_line) ==
    IF log_line = None THEN Raised
    ELSE LET outer == json_loads(log_line[1])
         IN IF outer.type # "dict" THEN Raised
            ELSE LET inner == DictGet(outer, "message")
                 IN IF inner = None THEN Raised
                    ELSE IF ~inner[1].mentions THEN Returned
                    ELSE LET message == json_loads(inner[1])
                         IN IF message.type # "dict" THEN Raised
                            ELSE message

\* a consumer that is in no call of process
IdleConsumer ==
    [pc |-> "idle", log_line |-> None, track_raises |-> FALSE,
     tracked |-> None, logged |-> FALSE]

\* line 22: process is called with a log line; self.mp.track will raise or not
ConsumerCall ==
    /\ consumer.pc \in {"idle", "returned"}
    /\ \E l \in LogLines, r \in BOOLEAN :
        consumer' = [pc |-> "try", log_line |-> l, track_raises |-> r,
                     tracked |-> None, logged |-> FALSE]
    /\ UNCHANGED <<LOG_STREAMS_FILTER, LOG_STREAM_MAP, LOG_STREAM_CHECKPOINT,
                   discoverer, dispatchers, threads, files, persister, monitor,
                   history, gb>>

\* lines 25-30
ConsumerParse ==
    /\ consumer.pc = "try"
    /\ LET message == ParseLogLine(consumer.log_line)
       IN consumer' = [consumer EXCEPT !.pc =
            IF message = Raised THEN "except"
            ELSE IF message = Returned THEN "returned"
            ELSE "report"]
    /\ UNCHANGED <<LOG_STREAMS_FILTER, LOG_STREAM_MAP, LOG_STREAM_CHECKPOINT,
                   discoverer, dispatchers, threads, files, persister, monitor,
                   history, gb>>

\* lines 31-44: the payload is made and, when should_report says so, tracked
ConsumerReport ==
    /\ consumer.pc = "report"
    /\ LET message == ParseLogLine(consumer.log_line)
           request_url == DictGet(message, "request_url")
           templatized_url == DictGet(message, "templatized_url")
           app_id == DictGet(message, "app_id")
           payload == [url |-> templatized_url, full_url |-> request_url,
                       app_id |-> app_id]
       IN consumer' =
            IF templatized_url = Some("/")
            THEN [consumer EXCEPT !.pc = "returned"]
            ELSE IF ~should_report(templatized_url, app_id)
            THEN [consumer EXCEPT !.pc = "returned"]
            ELSE IF consumer.track_raises
            THEN [consumer EXCEPT !.pc = "except"]
            ELSE [consumer EXCEPT !.pc = "returned",
                                  !.tracked = Some(payload)]
    /\ UNCHANGED <<LOG_STREAMS_FILTER, LOG_STREAM_MAP, LOG_STREAM_CHECKPOINT,
                   discoverer, dispatchers, threads, files, persister, monitor,
                   history, gb>>

\* lines 46-47: the exception is logged and process returns
ConsumerExcept ==
    /\ consumer.pc = "except"
    /\ consumer' = [consumer EXCEPT !.pc = "returned", !.logged = TRUE]
    /\ UNCHANGED <<LOG_STREAMS_FILTER, LOG_STREAM_MAP, LOG_STREAM_CHECKPOINT,
                   discoverer, dispatchers, threads, files, persister, monitor,
                   history, gb>>

---------------------------------------------------------------------------

\* the program of __main__ as it starts, with no allow-list configured
Init ==
    /\ LOG_STREAMS_FILTER = None
    /\ LOG_STREAM_MAP = <<>>
    /\ LOG_STREAM_CHECKPOINT = <<>>
    /\ discoverer = [pc |-> "sleep", log_streams |-> <<>>, ticks |-> 0]
    /\ dispatchers = <<IdleDispatcher(TRUE)>>
    /\ threads = <<>>
    /\ files = <<>>
    /\ persister = [state |-> <<>>, file |-> None, cycles |-> 0,
                    read |-> <<>>, repeat |-> FALSE]
    /\ monitor = [pc |-> "sleep", it |-> NewIterator(<<>>), emitted |-> <<>>,
                  ticks |-> 0]
    /\ history = [listed |-> {}, registered |-> <<>>, writers |-> <<>>]
    /\ gb = IdleManager
    /\ consumer = IdleConsumer

Discover ==
    \/ DiscoverList
    \/ DiscoverListFails
    \/ DiscoverStep
    \/ DiscoverSleep

Dispatch ==
    \/ \E d \in DOMAIN dispatchers : SyncScanBegin(d)
    \/ \E d \in DOMAIN dispatchers : SyncScanNext(d)
    \/ \E d \in DOMAIN dispatchers : SyncSpawn(d)
    \/ \E d \in DOMAIN dispatchers : SyncClaim(d)

Tail_ ==
    \/ \E t \in DOMAIN threads : TailerOpen(t)
    \/ \E t \in DOMAIN threads : TailerCreate(t)
    \/ \E t \in DOMAIN threads : TailerFetch(t)
    \/ \E t \in DOMAIN threads : TailerFetchFails(t)
    \/ \E t \in DOMAIN threads : TailerFileFails(t)
    \/ \E t \in DOMAIN threads : TailerWrite(t)
    \/ \E t \in DOMAIN threads : TailerCheckpoint(t)

\* the program of __main__: the four daemon threads and the threads they start
Next ==
    \/ Discover
    \/ Dispatch
    \/ Tail_
    \/ PersistCycle
    \/ StatusBegin
    \/ StatusNext

Spec == Init /\ [][Next]_vars

\* The threads that write the shared state: discover_logs, sync_new_logs and
\* the write_log threads. persist_state and log_status only read the two
\* dictionaries, so each behaviour below is a behaviour of Spec with those two
\* threads not yet scheduled.
NextStreams ==
    \/ Discover
    \/ Dispatch
    \/ Tail_

SpecStreams == Init /\ [][NextStreams]_vars

\* the writers together with persist_state
NextPersist ==
    \/ NextStreams
    \/ PersistCycle

SpecPersist == Init /\ [][NextPersist]_vars

\* the writers together with log_status
NextStatus ==
    \/ NextStreams
    \/ StatusBegin
    \/ StatusNext

SpecStatus == Init /\ [][NextStatus]_vars

\* The catalog alone: discover_logs and sync_new_logs are the only writers of
\* LOG_STREAM_MAP, so the other threads are left out, and the program is
\* followed under every value of the allow-list.
InitCatalog ==
    /\ LOG_STREAMS_FILTER \in AllFilterValues
    /\ LOG_STREAM_MAP = <<>>
    /\ LOG_STREAM_CHECKPOINT = <<>>
    /\ discoverer = [pc |-> "sleep", log_streams |-> <<>>, ticks |-> 0]
    /\ dispatchers = <<IdleDispatcher(TRUE)>>
    /\ threads = <<>>
    /\ files = <<>>
    /\ persister = [state |-> <<>>, file |-> None, cycles |-> 0,
                    read |-> <<>>, repeat |-> FALSE]
    /\ monitor = [pc |-> "sleep", it |-> NewIterator(<<>>), emitted |-> <<>>,
                  ticks |-> 0]
    /\ history = [listed |-> {}, registered |-> <<>>, writers |-> <<>>]
    /\ gb = IdleManager
    /\ consumer = IdleConsumer

NextCatalog ==
    \/ Discover
    \/ Dispatch

SpecCatalog == InitCatalog /\ [][NextCatalog]_vars

\* Dispatch ticks run side by side: NumTicks callers each run the body of the
\* loop of sync_new_logs once, over a catalog of entries discovery has left
\* unclaimed, while discovery does not run.
InitTicks ==
    /\ LOG_STREAMS_FILTER = None
    /\ \E l \in Listings :
        LOG_STREAM_MAP = [i \in 1..Len(l) |->
                            [key |-> <<LOG_GROUP_NAME, l[i]>>, value |-> None]]
    /\ LOG_STREAM_CHECKPOINT = <<>>
    /\ discoverer = [pc |-> "off", log_streams |-> <<>>, ticks |-> 0]
    /\ dispatchers = [d \in 1..NumTicks |-> IdleDispatcher(FALSE)]
    /\ threads = <<>>
    /\ files = <<>>
    /\ persister = [state |-> <<>>, file |-> None, cycles |-> 0,
                    read |-> <<>>, repeat |-> FALSE]
    /\ monitor = [pc |-> "sleep", it |-> NewIterator(<<>>), emitted |-> <<>>,
                  ticks |-> 0]
    /\ history = [listed |-> {}, registered |-> <<>>, writers |-> <<>>]
    /\ gb = IdleManager
    /\ consumer = IdleConsumer

NextTicks ==
    \/ Dispatch
    \/ Tail_

SpecTicks == InitTicks /\ [][NextTicks]_vars

\* The persister beside the threads of a log group one of whose streams is
\* named as the time member of the state file is: the catalog holds what a
\* discovery tick over the group's listing left, and the dispatch loop, the
\* threads it starts and persist_state run.
SnapshotListings ==
    {l \in UNION {[1..n -> {"s1", "modified_time"}] :
                    n \in 0..STREAM_LOOKBACK_COUNT} :
        \A i, j \in 1..Len(l) : i # j => l[i] # l[j]}

InitSnapshot ==
    /\ LOG_STREAMS_FILTER = None
    /\ \E l \in SnapshotListings :
        LOG_STREAM_MAP = [i \in 1..Len(l) |->
                            [key |-> <<LOG_GROUP_NAME, l[i]>>, value |-> None]]
    /\ LOG_STREAM_CHECKPOINT = <<>>
    /\ discoverer = [pc |-> "off", log_streams |-> <<>>, ticks |-> 0]
    /\ dispatchers = <<IdleDispatcher(FALSE)>>
    /\ threads = <<>>
    /\ files = <<>>
    /\ persister = [state |-> <<>>, file |-> None, cycles |-> 0,
                    read |-> <<>>, repeat |-> FALSE]
    /\ monitor = [pc |-> "sleep", it |-> NewIterator(<<>>), emitted |-> <<>>,
                  ticks |-> 0]
    /\ history = [listed |-> {}, registered |-> <<>>, writers |-> <<>>]
    /\ gb = IdleManager
    /\ consumer = IdleConsumer

NextSnapshot ==
    \/ Dispatch
    \/ Tail_
    \/ PersistCycle

SpecSnapshot == InitSnapshot /\ [][NextSnapshot]_vars

\* One discovery tick, then one dispatch tick: _discover_log_streams is run
\* once over an answered listing, and when it has returned the body of the loop
\* of sync_new_logs is run once.
InitScenario ==
    /\ LOG_STREAMS_FILTER \in AllFilterValues
    /\ LOG_STREAM_MAP = <<>>
    /\ LOG_STREAM_CHECKPOINT = <<>>
    /\ discoverer = [pc |-> "sleep", log_streams |-> <<>>, ticks |-> 0]
    /\ dispatchers = <<IdleDispatcher(FALSE)>>
    /\ threads = <<>>
    /\ files = <<>>
    /\ persister = [state |-> <<>>, file |-> None, cycles |-> 0,
                    read |-> <<>>, repeat |-> FALSE]
    /\ monitor = [pc |-> "sleep", it |-> NewIterator(<<>>), emitted |-> <<>>,
                  ticks |-> 0]
    /\ history = [listed |-> {}, registered |-> <<>>, writers |-> <<>>]
    /\ gb = IdleManager
    /\ consumer = IdleConsumer

ScenarioDiscover ==
    /\ discoverer.ticks = 0 \/ discoverer.pc = "loop"
    /\ (DiscoverList \/ DiscoverStep \/ DiscoverSleep)

ScenarioDispatch ==
    /\ discoverer.ticks = 1 /\ discoverer.pc = "sleep"
    /\ Dispatch

NextScenario ==
    \/ ScenarioDiscover
    \/ ScenarioDispatch

SpecScenario == InitScenario /\ [][NextScenario]_vars

\* The four loops and the threads, with discover_logs followed for one call of
\* _discover_log_streams and sync_new_logs for one turn of its loop.
InitIsolation ==
    /\ LOG_STREAMS_FILTER = None
    /\ LOG_STREAM_MAP = <<>>
    /\ LOG_STREAM_CHECKPOINT = <<>>
    /\ discoverer = [pc |-> "sleep", log_streams |-> <<>>, ticks |-> 0]
    /\ dispatchers = <<IdleDispatcher(FALSE)>>
    /\ threads = <<>>
    /\ files = <<>>
    /\ persister = [state |-> <<>>, file |-> None, cycles |-> 0,
                    read |-> <<>>, repeat |-> FALSE]
    /\ monitor = [pc |-> "sleep", it |-> NewIterator(<<>>), emitted |-> <<>>,
                  ticks |-> 0]
    /\ history = [listed |-> {}, registered |-> <<>>, writers |-> <<>>]
    /\ gb = IdleManager
    /\ consumer = IdleConsumer

NextIsolation ==
    \/ ScenarioDiscover
    \/ Dispatch
    \/ Tail_
    \/ PersistCycle
    \/ StatusBegin
    \/ StatusNext

SpecIsolation == InitIsolation /\ [][NextIsolation]_vars

\* discover_logs for one call of _discover_log_streams beside sync_new_logs,
\* whose loop is scheduled fairly: a step of it that can be taken is taken.
NextEventual ==
    \/ ScenarioDiscover
    \/ Dispatch

SpecEventual == Init /\ [][NextEventual]_vars /\ WF_vars(Dispatch)

\* The threads of the program seen as callers of the methods of gb: each calls
\* any method, any number of times.
NextLocks ==
    \/ \E c \in 1..NumCallers : GbCall(c)
    \/ \E c \in 1..NumCallers : GbAcquire(c)
    \/ \E c \in 1..NumCallers : GbBody(c)
    \/ \E c \in 1..NumCallers : GbBodyRaises(c)
    \/ \E c \in 1..NumCallers : GbRelease(c)

SpecLocks == Init /\ [][NextLocks]_vars

\* A MixpanelConsumer called with one log line after another.
NextConsumer ==
    \/ ConsumerCall
    \/ ConsumerParse
    \/ ConsumerReport
    \/ ConsumerExcept

SpecConsumer == Init /\ [][NextConsumer]_vars

---------------------------------------------------------------------------
(* Properties *)

Keys == {<<LOG_GROUP_NAME, s>> : s \in Streams}
KeyOf(th) == <<th.log_group_name, th.log_stream_name>>
ThreadsFor(k) == {t \in DOMAIN threads : KeyOf(threads[t]) = k}
EntriesFor(k) == {i \in DOMAIN LOG_STREAM_MAP : LOG_STREAM_MAP[i].key = k}

\* pages of its stream whose token thread t has written to the checkpoints
Checkpointed(t) ==
    IF threads[t].pc = "write" THEN threads[t].page - 1 ELSE threads[t].page

\* the token the checkpoint store holds for stream s
CheckpointOf(s) ==
    LOG_STREAM_CHECKPOINT[MapIndex(LOG_STREAM_CHECKPOINT, s)].value

\* the member names of a JSON object text, and the value of a member
JsonKeys(text) == {text[i] : i \in {j \in 1..(Len(text) - 1) : j % 4 = 2}}
JsonGet(text, k) ==
    text[(CHOOSE i \in 1..(Len(text) - 1) : i % 4 = 2 /\ text[i] = k) + 2]

\* the place of a token among the tokens the source yields for stream s
TokenIndex(s, tok) ==
    CHOOSE i \in 1..Len(GetLogEvents(s)) : GetLogEvents(s)[i].next_token = tok

\* the place of the token the state file holds for s, 0 when it holds none
PersistedIndex(p, s) ==
    IF p.file = None THEN 0
    ELSE IF s \notin JsonKeys(p.file[1]) THEN 0
    ELSE TokenIndex(s, JsonGet(p.file[1], s))

\* every record the source yields for s, in yield order, one line each
RECURSIVE RecordsOf(_)
RecordsOf(pages) ==
    IF pages = <<>> THEN <<>>
    ELSE [i \in 1..Len(pages[1].logs) |-> LineOf(pages[1].logs[i])]
            \o RecordsOf(Tail(pages))

IsPrefix(a, b) == Len(a) <= Len(b) /\ \A i \in 1..Len(a) : a[i] = b[i]

\* C1: over the whole run at most one write_log thread is started for a
\* (logGroupName, logStreamName) identity.
C1_AtMostOneTailer ==
    \A k \in Keys : Cardinality(ThreadsFor(k)) <= 1

\* C2: a discovery step that lists a stream whose identity is already in the
\* catalog leaves the catalog as it is.
C2_RegisterIsNoOp ==
    [][(/\ DiscoverStep
        /\ <<LOG_GROUP_NAME, Head(discoverer.log_streams)>>
                \in MapKeys(LOG_STREAM_MAP))
       => LOG_STREAM_MAP' = LOG_STREAM_MAP]_vars

\* C3: when the dispatch ticks that ran side by side over K unclaimed entries
\* have all ended, K threads have been started, one for each entry, and no
\* entry is unclaimed.
C3_ExactlyKClaims ==
    (\A d \in DOMAIN dispatchers : dispatchers[d].pc = "returned")
    => /\ Len(threads) = Len(LOG_STREAM_MAP)
       /\ \A i \in DOMAIN LOG_STREAM_MAP :
            /\ LOG_STREAM_MAP[i].value # None
            /\ Cardinality(ThreadsFor(LOG_STREAM_MAP[i].key)) = 1

\* C4: the checkpoint of a stream has been written by one thread only, the
\* thread of that stream, and holds the token of the last page that thread
\* has checkpointed.
C4_CheckpointByOneTailerInOrder ==
    \A s \in MapKeys(LOG_STREAM_CHECKPOINT) :
        \E t \in DOMAIN threads :
            /\ history.writers[s] = {t}
            /\ threads[t].log_stream_name = s
            /\ Checkpointed(t) >= 1
            /\ CheckpointOf(s)
                    = GetLogEvents(s)[Checkpointed(t)].next_token

\* C5: from one persistence cycle to the next the token the state file holds
\* for a stream stays or moves to the next token the source yielded: the
\* persisted tokens are the yielded tokens, none skipped, none out of order.
C5_PersistedInYieldOrder ==
    [][\A s \in Streams :
        PersistedIndex(persister', s) \in
            {PersistedIndex(persister, s), PersistedIndex(persister, s) + 1}]_vars

\* C6: the log file of a stream is a prefix of the records the source yields
\* for the stream, and is all of them once a thread of the stream has seen the
\* end of the stream.
C6_FileIsPrefixOfRecords ==
    \A t \in DOMAIN threads :
        LET th == threads[t]
            all == RecordsOf(GetLogEvents(th.log_stream_name))
        IN th.file_name \in DOMAIN files =>
            /\ IsPrefix(files[th.file_name], all)
            /\ th.pc = "done" => files[th.file_name] = all

\* C7: while the dispatch scan or the status loop is iterating the catalog, no
\* step inserts into or overwrites LOG_STREAM_MAP.
C7_ReadersIterateACopy ==
    [][(\/ \E d \in DOMAIN dispatchers : dispatchers[d].pc = "scan"
        \/ monitor.pc = "loop")
       => LOG_STREAM_MAP' = LOG_STREAM_MAP]_vars

C9_DiscovererSurvives == discoverer.pc # "dead"

\* C10: however often an identity is registered the catalog holds one entry
\* for it, and it holds as many entries as identities were registered.
C10_IdempotentRegistration ==
    /\ \A k \in DOMAIN history.registered : Cardinality(EntriesFor(k)) = 1
    /\ Len(LOG_STREAM_MAP) = Cardinality(DOMAIN history.registered)

\* one identity registered twice, another once
C10_Witness ==
    /\ \E k \in DOMAIN history.registered : history.registered[k] >= 2
    /\ Cardinality(DOMAIN history.registered) = 2

\* C11: from an empty catalog, one discovery tick leaves exactly the listed
\* streams that pass the filter, each unclaimed; the dispatch tick after it
\* leaves the same entries, each holding the handle of the one thread started
\* for it.
C11_DiscoverThenDispatch ==
    LET passing == {<<LOG_GROUP_NAME, s>> : s \in
                        {x \in history.listed :
                            \/ LOG_STREAMS_FILTER = None
                            \/ x \in LOG_STREAMS_FILTER[1]}}
        same == /\ MapKeys(LOG_STREAM_MAP) = passing
                /\ Len(LOG_STREAM_MAP) = Cardinality(passing)
    IN /\ (/\ discoverer.ticks = 1 /\ discoverer.pc = "sleep"
            /\ dispatchers[1].pc = "idle")
          => /\ same
             /\ \A i \in DOMAIN LOG_STREAM_MAP : LOG_STREAM_MAP[i].value = None
       /\ dispatchers[1].pc = "returned"
          => /\ same
             /\ Len(threads) = Len(LOG_STREAM_MAP)
             /\ \A i \in DOMAIN LOG_STREAM_MAP :
                    \E t \in DOMAIN threads :
                        /\ ThreadsFor(LOG_STREAM_MAP[i].key) = {t}
                        /\ LOG_STREAM_MAP[i].value = Some(t)

\* both streams listed and passing, the dispatch tick over
C11_Witness ==
    /\ dispatchers[1].pc = "returned"
    /\ Len(LOG_STREAM_MAP) = 2
    /\ Len(threads) = 2

\* the text of the state file with the value of the time member blanked
StripTime(text) ==
    [i \in 1..Len(text) |->
        IF i % 4 = 0 /\ text[i - 2] = "modified_time" THEN "" ELSE text[i]]

\* C12: a persistence cycle that reads the checkpoint store as the cycle
\* before it read it writes the state file the cycle before wrote, token for
\* token, but for the value of the time member.
C12_PersistTwiceSameButTime ==
    [][(/\ persister'.cycles = persister.cycles + 1
        /\ persister'.repeat)
       => StripTime(persister'.file[1]) = StripTime(persister.file[1])]_vars

\* a cycle has repeated the one before it over a store that holds tokens
C12_Witness ==
    /\ persister.repeat
    /\ Len(persister.read) = 2

\* a is b with some of its elements left out
RECURSIVE IsSubsequence(_, _)
IsSubsequence(a, b) ==
    IF a = <<>> THEN TRUE
    ELSE IF b = <<>> THEN FALSE
    ELSE IF a[1] = b[1] THEN IsSubsequence(Tail(a), Tail(b))
    ELSE IsSubsequence(a, Tail(b))

\* C13: when the checkpoint of a stream is the token of its k-th page, the
\* file of the stream holds every record of pages 1..k, in yield order: the
\* token of a page is stored only after the records of the page are written
\* and the records stay in the file.
C13_RecordsBeforeCheckpoint ==
    \A s \in MapKeys(LOG_STREAM_CHECKPOINT) :
        LET k == TokenIndex(s, CheckpointOf(s))
            file_name == _get_file_name(LOG_GROUP_NAME, s)
        IN /\ file_name \in DOMAIN files
           /\ IsSubsequence(RecordsOf(SubSeq(GetLogEvents(s), 1, k)),
                            files[file_name])

\* the threads that hold file_name open for writing
OpenFor(file_name) ==
    {t \in DOMAIN threads :
        /\ threads[t].file_name = file_name
        /\ threads[t].pc \in {"fetch", "write"}}

\* C14: each stream file is held open for writing by at most one thread.
C14_OneWriterPerFile ==
    \A t \in DOMAIN threads : Cardinality(OpenFor(threads[t].file_name)) <= 1

\* C15: the state file a persistence cycle wrote is the time of the cycle
\* under modified_time and, for each key the checkpoint store held when the
\* cycle read it, the token it held then: those members and no other.
C15_WholesaleSnapshot ==
    persister.file # None =>
        LET text == persister.file[1]
        IN /\ Len(text) = 4 * (1 + Len(persister.read)) + 1
           /\ JsonGet(text, "modified_time") = asctime(persister.cycles)
           /\ \A i \in DOMAIN persister.read :
                JsonGet(text, persister.read[i].key) = persister.read[i].value

\* C16: the step in which a write_log thread ends on an error of the fetch or
\* of the file changes that thread alone: the catalog, the checkpoints, the
\* files, every other thread and the four loops are as they were, each still
\* at the place it had reached.
C16_FailureIsLocal ==
    [][\A t \in DOMAIN threads :
        (threads[t].pc # "failed" /\ threads'[t].pc = "failed")
        => /\ LOG_STREAM_MAP' = LOG_STREAM_MAP
           /\ LOG_STREAM_CHECKPOINT' = LOG_STREAM_CHECKPOINT
           /\ files' = files
           /\ \A u \in DOMAIN threads \ {t} : threads'[u] = threads[u]
           /\ discoverer' = discoverer
           /\ dispatchers' = dispatchers
           /\ persister' = persister
           /\ monitor' = monitor]_vars

\* a thread has failed beside a thread of the other stream that has written,
\* with each of the four loops under way
C16_Witness ==
    /\ \E t, u \in DOMAIN threads :
        /\ threads[t].pc = "failed"
        /\ threads[u].log_stream_name # threads[t].log_stream_name
        /\ threads[u].pc = "done"
    /\ discoverer.pc = "sleep" /\ discoverer.ticks >= 1
    /\ persister.cycles >= 1
    /\ monitor.ticks >= 1

\* C17: with the dispatch loop scheduled fairly, an identity registered with
\* no thread is in the end mapped to the handle of a thread started for it.
C17_EventuallyClaimed ==
    \A s \in Streams :
        (/\ <<LOG_GROUP_NAME, s>> \in MapKeys(LOG_STREAM_MAP)
         /\ MapGet(LOG_STREAM_MAP, <<LOG_GROUP_NAME, s>>) = None)
        ~> (/\ MapGet(LOG_STREAM_MAP, <<LOG_GROUP_NAME, s>>) # None
            /\ \E t \in ThreadsFor(<<LOG_GROUP_NAME, s>>) :
                MapGet(LOG_STREAM_MAP, <<LOG_GROUP_NAME, s>>) = Some(t))

\* C18: the lock of gb is held by exactly the one call that is between its
\* acquire and its release; a call that has returned or raised holds nothing,
\* a call waiting to acquire holds nothing, and whoever holds the lock is at
\* a step it can take, so no caller waits for ever.
C18_NoLockHazard ==
    /\ \A c \in 1..NumCallers :
        gb.lock = c <=> gb.calls[c].pc \in {"try", "finally", "finally raised"}
    /\ gb.lock \in 0..NumCallers
    /\ (\E c \in 1..NumCallers : gb.calls[c].pc = "acquire")
        => \/ ENABLED (\E c \in 1..NumCallers : GbAcquire(c))
           \/ ENABLED (\E c \in 1..NumCallers : GbBody(c))
           \/ ENABLED (\E c \in 1..NumCallers : GbRelease(c))

\* two callers wait for the lock after a third has left a set method by an
\* exception
C18_Witness ==
    /\ gb.calls[1].pc = "raised"
    /\ gb.calls[2].pc = "acquire"
    /\ gb.calls[3].pc = "try"
    /\ Len(LOG_STREAM_MAP) >= 1

\* C19: a step of log_status changes neither the catalog nor the checkpoints
\* nor any file, and a tick that is over has emitted one status line for each
\* entry the catalog held when the tick began.
C19_StatusReadOnlyAndComplete ==
    [][monitor' # monitor
       => /\ LOG_STREAM_MAP' = LOG_STREAM_MAP
          /\ LOG_STREAM_CHECKPOINT' = LOG_STREAM_CHECKPOINT
          /\ files' = files
          /\ monitor'.pc # "loop"
                => Len(monitor'.emitted) = monitor'.it.used]_vars

\* the request object a log line carries, when it carries one
HasRequest(l) ==
    /\ l # None
    /\ l[1].kind = "envelope"
    /\ l[1].message # None
    /\ l[1].message[1].kind = "request"

\* C20: a call of process is always at a statement from which it goes on to
\* return, whatever the log line and whether or not the track call raises;
\* and an event has been tracked only for a request whose templatized url is
\* a string other than "" and "/" and whose app_id is a string other than "".
C20_ProcessAlwaysReturns ==
    /\ consumer.pc \in {"idle", "try", "report", "except", "returned"}
    /\ consumer.pc \in {"try", "report", "except"}
        => ENABLED (ConsumerParse \/ ConsumerReport \/ ConsumerExcept)
    /\ consumer.tracked # None
        => /\ HasRequest(consumer.log_line)
           /\ LET request == consumer.log_line[1].message[1]
              IN /\ request.templatized_url \notin {None, Some(""), Some("/")}
                 /\ request.app_id \notin {None, Some("")}
                 /\ consumer.tracked[1].url = request.templatized_url
                 /\ consumer.tracked[1].app_id = request.app_id

\* process has returned from a call in which the track call raised
C20_Witness ==
    /\ consumer.pc = "returned"
    /\ consumer.logged
    /\ consumer.track_raises
    /\ HasRequest(consumer.log_line)
    /\ consumer.log_line[1].message[1].templatized_url = Some("/x")
    /\ consumer.log_line[1].message[1].app_id = Some("app")

====
